---- MODULE Spec2Model ----
(***************************************************************************)
(* Cobblestone: the modern-protocol connection session                     *)
(* (server/deno/networking/minecraft/playPackets.ts) and the server's      *)
(* identification handshake (core/server.ts, Server.connectPlayer).        *)
(*                                                                         *)
(* One session is modelled.  `out' and `calls' hold what the last step     *)
(* handed to _handler.send and to the player collaborator, `lastOp' names  *)
(* the operation that step ran and its inputs.                             *)
(***************************************************************************)
EXTENDS Integers, Sequences, FiniteSets, TLC

\* ------------------------------------------------------------------ bounds
MaxNow == 405
MaxSeq == 2
MaxDimSteps == 3
MaxRuns == 2

\* ------------------------------------------------------- program constants
MineDelay == 200
SectionEdge == 16
NullTime == -1
barrierId == 9999
UndefinedItem == -1
UndefinedState == -1
HotbarOffset == 36
InventorySize == 50

NoPos == <<>>
NoPlayer == "none"
Self == "p1"
Other == "p2"

\* const directions = [...]
directions ==
  << <<0, -1, 0>>, <<0, 1, 0>>, <<0, 0, -1>>, <<0, 0, 1>>, <<-1, 0, 0>>, <<1, 0, 0>> >>

\* translationMap.ts: internal block id -> protocol block state (0 air, 1 stone)
cBlockToBlockState == (0 :> 0) @@ (1 :> 1)

\* translationMap.ts: protocol item id -> internal block ({numId}); item 1 is stone
itemToCBlock == (1 :> [numId |-> 1])

\* the world the server creates when none is stored
DefaultSize == <<256, 128, 256>>

VARIABLES
  player,         \* handler.player / this._player
  isConnected,    \* player.isConnected
  minePos,        \* handler.data.minePos
  mineTime,       \* handler.data.mineTime
  inventory,      \* handler.inventory
  inventorySlot,  \* handler.inventorySlot
  closed,         \* _handler.close() was called
  now,            \* Date.now()
  worldSize,      \* world.getSize()
  blocks,         \* the world's block grid on the cells the packets touch
  roster,         \* server.players
  run,            \* the sendWorld call in progress
  run2,           \* a sendWorld call made while the first is suspended
  runCount,       \* sendWorld calls made so far
  firstCols,      \* the chunk columns the first sendWorld call sent
  conn,           \* connectPlayer's position for the connection
  lastOp,         \* the operation of the last step
  out,            \* packets the last step handed to _handler.send
  calls           \* player-collaborator calls the last step made

vars ==
  << player, isConnected, minePos, mineTime, inventory, inventorySlot, closed, now,
     worldSize, blocks, roster, run, run2, runCount, firstCols, conn, lastOp, out,
     calls >>

sessionVars == << player, isConnected, minePos, mineTime, inventory, inventorySlot, closed >>
joinVars == << run, run2, runCount, firstCols >>

\* ----------------------------------------------------------------- helpers
Pkt(name, a, b) == [id |-> name, a |-> a, b |-> b]
Call(name, pos, arg) == [fn |-> name, pos |-> pos, arg |-> arg]
OpSeq(name, pos, arg, seq) == [op |-> name, pos |-> pos, arg |-> arg, seq |-> seq]
Op(name, pos, arg) == OpSeq(name, pos, arg, 0)

\* world.isInBounds(x, y, z)
isInBounds(x, y, z) ==
  /\ x >= 0 /\ x < worldSize[1]
  /\ y >= 0 /\ y < worldSize[2]
  /\ z >= 0 /\ z < worldSize[3]

\* the generated terrain of a cell no packet touched: stone in the lower half
Terrain(x, y, z) == IF 2 * y < worldSize[2] THEN 1 ELSE 0

\* world.getBlockId(x, y, z)
getBlockId(x, y, z) ==
  IF <<x, y, z>> \in DOMAIN blocks THEN blocks[<<x, y, z>>] ELSE Terrain(x, y, z)

\* cBlockToBlockState[b] ?? 0
TranslateOrZero(b) == IF b \in DOMAIN cBlockToBlockState THEN cBlockToBlockState[b] ELSE 0

\* cBlockToBlockState[oldBlock], as packet.worldEvent gets it: no fallback
WorldEventData(b) ==
  IF b \in DOMAIN cBlockToBlockState THEN cBlockToBlockState[b] ELSE UndefinedState

\* handler.player?.world.isInBounds(pos[0], pos[1], pos[2])
PlayerInBounds(pos) == player # NoPlayer /\ isInBounds(pos[1], pos[2], pos[3])

\* -------------------------------------------------------------- input sets
PosInputs == { <<5, 10, 5>>, <<2, 2, 2>>, <<-1, 10, 5>>, <<5, 128, 5>> }
ClockSteps == {100, 101}
Statuses == 0 .. 3

\* the cells whose block the model tracks: the in-bounds targets and their neighbours
Cells ==
  { p \in PosInputs : p[1] >= 0 /\ p[2] >= 0 /\ p[3] >= 0
                      /\ p[1] < DefaultSize[1] /\ p[2] < DefaultSize[2] /\ p[3] < DefaultSize[3] }
  \cup { << 2 + directions[f][1], 2 + directions[f][2], 2 + directions[f][3] >> : f \in 1 .. 6 }

\* ------------------------------------------------------ player collaborator
\* player._action_block_break(x, y, z): the world after an accepted (ok) or a
\* rejected break
BlockBreak(pos, ok) ==
  IF ok /\ pos \in DOMAIN blocks THEN [blocks EXCEPT ![pos] = 0] ELSE blocks

\* player._action_block_place(x, y, z, id): the world after an accepted or rejected place
BlockPlace(pos, id, ok) ==
  IF ok /\ pos \in DOMAIN blocks THEN [blocks EXCEPT ![pos] = id] ELSE blocks

Bit(b) == IF b THEN 1 ELSE 0

\* ----------------------------------------------- playPackets[0x1c], status 2
\* a finish-dig that reads the block id after the break
FinishDigOutReadsAfter(pos, ok) ==
  IF PlayerInBounds(pos)
    THEN IF ok
           THEN << Pkt("worldEvent", pos,
                       WorldEventData(IF pos \in DOMAIN blocks THEN BlockBreak(pos, ok)[pos]
                                      ELSE Terrain(pos[1], pos[2], pos[3]))) >>
           ELSE << >>
    ELSE << Pkt("setBlock", pos, barrierId) >>

\* what a finish-dig at pos sends and calls; ok is the collaborator's answer
FinishDigOut(pos, ok) ==
  IF PlayerInBounds(pos)
    THEN IF ok
           THEN << Pkt("worldEvent", pos, WorldEventData(getBlockId(pos[1], pos[2], pos[3]))) >>
           ELSE << >>
    ELSE << Pkt("setBlock", pos, barrierId) >>

\* a finish-dig that attempts the break whatever the position
FinishDigCallsUnchecked(pos, ok) ==
  IF player # NoPlayer THEN << Call("break", pos, Bit(ok)) >> ELSE << >>

FinishDigCalls(pos, ok) ==
  IF PlayerInBounds(pos) THEN << Call("break", pos, Bit(ok)) >> ELSE << >>

FinishDigBlocks(pos, ok) ==
  IF PlayerInBounds(pos) THEN BlockBreak(pos, ok) ELSE blocks

\* a player-action handler whose finish-dig keeps the pending dig when the break
\* is rejected
PlayerActionKeepsOnReject(status, pos, ok) ==
  /\ lastOp' = Op("playerAction", pos, status)
  /\ CASE status = 0 ->
            /\ minePos' = pos
            /\ mineTime' = now
            /\ out' = << >>
            /\ calls' = << >>
            /\ UNCHANGED blocks
       [] status = 1 ->
            /\ minePos' = NoPos
            /\ mineTime' = NullTime
            /\ out' = << >>
            /\ calls' = << >>
            /\ UNCHANGED blocks
       [] status = 2 ->
            /\ out' = FinishDigOut(pos, ok)
            /\ calls' = FinishDigCalls(pos, ok)
            /\ blocks' = FinishDigBlocks(pos, ok)
            /\ minePos' = IF PlayerInBounds(pos) /\ ~ok THEN minePos ELSE NoPos
            /\ mineTime' = IF PlayerInBounds(pos) /\ ~ok THEN mineTime ELSE NullTime
       [] OTHER ->
            /\ out' = << >>
            /\ calls' = << >>
            /\ UNCHANGED << minePos, mineTime, blocks >>
  /\ UNCHANGED << player, isConnected, inventory, inventorySlot, closed, now, worldSize,
                  roster, joinVars, conn >>

\* playPackets[0x1c]: Player Action
PlayerAction(status, pos, ok) ==
  /\ lastOp' = Op("playerAction", pos, status)
  /\ CASE status = 0 ->
            /\ minePos' = pos
            /\ mineTime' = now
            /\ out' = << >>
            /\ calls' = << >>
            /\ UNCHANGED blocks
       [] status = 1 ->
            /\ minePos' = NoPos
            /\ mineTime' = NullTime
            /\ out' = << >>
            /\ calls' = << >>
            /\ UNCHANGED blocks
       [] status = 2 ->
            /\ out' = FinishDigOut(pos, ok)
            /\ calls' = FinishDigCalls(pos, ok)
            /\ blocks' = FinishDigBlocks(pos, ok)
            /\ minePos' = NoPos
            /\ mineTime' = NullTime
       [] OTHER ->
            /\ out' = << >>
            /\ calls' = << >>
            /\ UNCHANGED << minePos, mineTime, blocks >>
  /\ UNCHANGED << player, isConnected, inventory, inventorySlot, closed, now, worldSize,
                  roster, joinVars, conn >>

\* ------------------------------------------- ModernConnectionHandler.tick
KeepAlive == IF now % 2 = 0 THEN << Pkt("keepAlive", NoPos, now) >> ELSE << >>

\* a timeout test that also asks for a player
DigTimedOutNeedsPlayer ==
  /\ player # NoPlayer
  /\ minePos # NoPos
  /\ mineTime # NullTime /\ mineTime # 0
  /\ now - mineTime > MineDelay

\* minePos && mineTime && now - mineTime > 200
DigTimedOut ==
  /\ minePos # NoPos
  /\ mineTime # NullTime /\ mineTime # 0
  /\ now - mineTime > MineDelay

\* a timeout that stays silent about a position outside the world
TickDigOutSilentOutside(pos, ok) ==
  IF PlayerInBounds(pos) /\ ok
    THEN << Pkt("worldEvent", pos, WorldEventData(getBlockId(pos[1], pos[2], pos[3]))) >>
    ELSE << >>

TickDigOut(pos, ok) ==
  IF PlayerInBounds(pos)
    THEN IF ok
           THEN << Pkt("worldEvent", pos, WorldEventData(getBlockId(pos[1], pos[2], pos[3]))) >>
           ELSE << >>
    ELSE << Pkt("setBlock", pos, barrierId) >>

TickDigCalls(pos, ok) ==
  IF PlayerInBounds(pos) THEN << Call("break", pos, Bit(ok)) >> ELSE << >>

TickDigBlocks(pos, ok) ==
  IF PlayerInBounds(pos) THEN BlockBreak(pos, ok) ELSE blocks

\* a tick that resolves the dig and leaves it pending
TickKeepsPending(ok) ==
  /\ lastOp' = Op("tick", NoPos, 0)
  /\ out' = KeepAlive \o (IF DigTimedOut THEN TickDigOut(minePos, ok) ELSE << >>)
  /\ calls' = IF DigTimedOut THEN TickDigCalls(minePos, ok) ELSE << >>
  /\ blocks' = IF DigTimedOut THEN TickDigBlocks(minePos, ok) ELSE blocks
  /\ UNCHANGED << minePos, mineTime >>
  /\ UNCHANGED << player, isConnected, inventory, inventorySlot, closed, now, worldSize,
                  roster, joinVars, conn >>

Tick(ok) ==
  /\ lastOp' = Op("tick", NoPos, 0)
  /\ IF DigTimedOut
       THEN /\ out' = KeepAlive \o TickDigOut(minePos, ok)
            /\ calls' = TickDigCalls(minePos, ok)
            /\ blocks' = TickDigBlocks(minePos, ok)
            /\ minePos' = NoPos
            /\ mineTime' = NullTime
       ELSE /\ out' = KeepAlive
            /\ calls' = << >>
            /\ UNCHANGED << minePos, mineTime, blocks >>
  /\ UNCHANGED << player, isConnected, inventory, inventorySlot, closed, now, worldSize,
                  roster, joinVars, conn >>

\* Date.now() moves on between two callbacks of the event loop
AdvanceClock(d) ==
  /\ now + d <= MaxNow
  /\ now' = now + d
  /\ lastOp' = Op("clock", NoPos, d)
  /\ out' = << >>
  /\ calls' = << >>
  /\ UNCHANGED << sessionVars, worldSize, blocks, roster, joinVars, conn >>

\* --------------------------------------- ModernConnectionHandler.setPlayer
SetPlayerOut ==
  << Pkt("joinGame", NoPos, 0), Pkt("pluginMessage", NoPos, 0),
     Pkt("updatePlayerListTexts", NoPos, 0) >>

\* new Player(..., conn, server) attaches itself to its connection handler
SetPlayer ==
  /\ player = NoPlayer
  /\ ~closed
  /\ player' = Self
  /\ isConnected' = TRUE
  /\ lastOp' = Op("setPlayer", NoPos, 0)
  /\ out' = SetPlayerOut
  /\ calls' = << >>
  /\ UNCHANGED << minePos, mineTime, inventory, inventorySlot, closed, now, worldSize,
                  blocks, roster, joinVars, conn >>

\* -------------------------------------- ModernConnectionHandler.disconnect
\* player.disconnect(): marks the player disconnected, takes it off the roster and
\* calls back into its connection handler's disconnect
DisconnectOut == << Pkt("disconnect", NoPos, 0) >>

Disconnect ==
  /\ lastOp' = Op("disconnect", NoPos, 0)
  /\ IF player # NoPlayer /\ isConnected
       THEN /\ isConnected' = FALSE
            /\ roster' = roster \ {player}
       ELSE UNCHANGED << isConnected, roster >>
  /\ out' = DisconnectOut
  /\ closed' = TRUE
  /\ calls' = << >>
  /\ UNCHANGED << player, minePos, mineTime, inventory, inventorySlot, now, worldSize,
                  blocks, joinVars, conn >>

\* ------------------------------------- ModernConnectionHandler.sendWorld
IdleRun == [pc |-> "idle", cx |-> 0, cz |-> 0, cols |-> << >>, sent |-> << >>]

CeilDiv(a, b) == (a + b - 1) \div b
Max(a, b) == IF a >= b THEN a ELSE b

\* a section loop that translates every cell and never asks isInBounds
SectionCellNoBounds(cx, cy, cz, x, y, z) ==
  TranslateOrZero(getBlockId(cx * SectionEdge + x, cy * SectionEdge + y,
                             cz * SectionEdge + z))

\* the block state sendWorld writes into cell (x, y, z) of section cy of column (cx, cz)
SectionCell(cx, cy, cz, x, y, z) ==
  IF isInBounds(cx * SectionEdge + x, cy * SectionEdge + y, cz * SectionEdge + z)
    THEN TranslateOrZero(getBlockId(cx * SectionEdge + x, cy * SectionEdge + y,
                                    cz * SectionEdge + z))
    ELSE barrierId

\* for (let cy = -1; cy < worldSize[1] / 16; cy++): the sections pushed, bottom-up
RECURSIVE SectionsFrom(_)
SectionsFrom(cy) ==
  IF cy * SectionEdge < worldSize[2] THEN << cy >> \o SectionsFrom(cy + 1) ELSE << >>

\* the section loop started at the world's own bottom section
ChunkSectionsFromZero == SectionsFrom(0)

ChunkSections == SectionsFrom(-1)

\* the chunk-column packet of column (cx, cz): its sections are named by their cy,
\* the cells of a section are SectionCell
ChunkPkt(cx, cz) == Pkt("chunk", << cx, cz >>, ChunkSections)

\* the x loop without its border column: cx < worldSize[0] / 16
ColumnInLoopXNoBorder(cx) == cx * SectionEdge < worldSize[1]

\* cx < worldSize[0] / 16 + 1, cz < worldSize[2] / 16 + 1
ColumnInLoopX(cx) == cx * SectionEdge < worldSize[1] + SectionEdge
ColumnInLoopZ(cz) == cz * SectionEdge < worldSize[3] + SectionEdge

\* entityIdToUuid(player.numId); the session's own identity is listed under selfUuid
numId(p) == IF p = Self THEN 1 ELSE 2
entityIdToUuid(id) == id
selfUuid == 100

\* world.players, in the order they joined
WorldPlayers == SelectSeq(<< Other, Self >>, LAMBDA p : p \in roster)

\* sendSpawnPlayer without its test for the session's own player
SendSpawnPlayerUnguarded(p) ==
  << Pkt("playerListAdd", p, entityIdToUuid(numId(p))), Pkt("spawnPlayer", p, numId(p)) >>

\* ModernConnectionHandler.sendSpawnPlayer
SendSpawnPlayer(p) ==
  IF p # player
    THEN << Pkt("playerListAdd", p, entityIdToUuid(numId(p))), Pkt("spawnPlayer", p, numId(p)) >>
    ELSE << >>

\* sendDespawnPlayer without its test for the session's own player
SendDespawnPlayerUnguarded(p) ==
  << Pkt("removeEntity", p, numId(p)), Pkt("playerListRemove", p, numId(p)) >>

\* ModernConnectionHandler.sendDespawnPlayer
SendDespawnPlayer(p) ==
  IF p # player
    THEN << Pkt("removeEntity", p, numId(p)), Pkt("playerListRemove", p, numId(p)) >>
    ELSE << >>

\* ModernConnectionHandler.sendMove
SendMove(p) ==
  IF p # player
    THEN << Pkt("teleport", NoPos, numId(p)), Pkt("rotateHead", NoPos, numId(p)) >>
    ELSE << >>

RECURSIVE SpawnAll(_)
SpawnAll(ps) ==
  IF ps = << >> THEN << >> ELSE SendSpawnPlayer(Head(ps)) \o SpawnAll(Tail(ps))

\* joinGame .. updateViewPos
JoinMeta ==
  << Pkt("joinGame", NoPos, numId(player)),
     Pkt("respawn", NoPos, 0),
     Pkt("updateViewDistance", NoPos, CeilDiv(Max(worldSize[1], worldSize[3]), 32) + 2),
     Pkt("updateTickDistance", NoPos, CeilDiv(Max(worldSize[1], worldSize[3]), 32) + 2),
     Pkt("updateViewPos", << worldSize[1] \div 32, worldSize[3] \div 32 >>, 0) >>

\* a sendWorld that registers the arriving player before it spawns the others
AfterColumnsListFirst ==
  << Pkt("playerListAdd", player, selfUuid) >> \o SpawnAll(WorldPlayers)

\* what follows the last column up to the next sleep
AfterColumns == SpawnAll(WorldPlayers) \o << Pkt("playerListAdd", player, selfUuid) >>

\* sendTeleport to the spawn point, then abilities
TeleportAndAbilities ==
  << Pkt("teleport", NoPos, numId(player)), Pkt("rotateHead", NoPos, numId(player)),
     Pkt("abilities", NoPos, 0) >>

\* what a run does between two suspensions, as the run record after it and the
\* packets it sends; r is the run at the moment it wakes up
RunAfterSend(r, pc, cx, cz, pkts) ==
  [pc |-> pc, cx |-> cx, cz |-> cz,
   cols |-> r.cols \o SelectSeq(pkts, LAMBDA k : k.id = "chunk"),
   sent |-> r.sent \o pkts]

\* the column the loops reach after column (cx, cz), or NoPos after the last one
NextColumn(cx, cz) ==
  IF ColumnInLoopZ(cz + 1) THEN << cx, cz + 1 >>
  ELSE IF ColumnInLoopX(cx + 1) /\ ColumnInLoopZ(-1) THEN << cx + 1, -1 >>
  ELSE NoPos

\* a sendWorld with no sleep between its first two columns
SendWorldPktsTwoColumns(r) ==
  CASE r.pc = "sleep1" -> JoinMeta
    [] r.pc = "sleep2" -> << ChunkPkt(-1, -1), ChunkPkt(-1, 0) >>
    [] r.pc = "column" ->
         IF NextColumn(r.cx, r.cz) # NoPos
           THEN << ChunkPkt(NextColumn(r.cx, r.cz)[1], NextColumn(r.cx, r.cz)[2]) >>
           ELSE AfterColumns
    [] r.pc = "sleep3" -> TeleportAndAbilities
    [] OTHER -> << >>

SendWorldPkts(r) ==
  CASE r.pc = "sleep1" -> JoinMeta
    [] r.pc = "sleep2" -> << ChunkPkt(-1, -1) >>
    [] r.pc = "column" ->
         IF NextColumn(r.cx, r.cz) # NoPos
           THEN << ChunkPkt(NextColumn(r.cx, r.cz)[1], NextColumn(r.cx, r.cz)[2]) >>
           ELSE AfterColumns
    [] r.pc = "sleep3" -> TeleportAndAbilities
    [] OTHER -> << >>

SendWorldNext(r) ==
  CASE r.pc = "sleep1" -> RunAfterSend(r, "sleep2", r.cx, r.cz, SendWorldPkts(r))
    [] r.pc = "sleep2" -> RunAfterSend(r, "column", -1, -1, SendWorldPkts(r))
    [] r.pc = "column" ->
         IF NextColumn(r.cx, r.cz) # NoPos
           THEN RunAfterSend(r, "column", NextColumn(r.cx, r.cz)[1], NextColumn(r.cx, r.cz)[2],
                             SendWorldPkts(r))
           ELSE RunAfterSend(r, "sleep3", r.cx, r.cz, SendWorldPkts(r))
    [] r.pc = "sleep3" -> RunAfterSend(r, "sleep4", r.cx, r.cz, SendWorldPkts(r))
    [] OTHER -> [r EXCEPT !.pc = "done"]

\* sendWorld(world) is called: it throws without a player, else runs to its first sleep
SendWorldCall ==
  /\ run.pc \in {"idle", "done"}
  /\ runCount < MaxRuns
  /\ IF player = NoPlayer
       THEN /\ lastOp' = Op("sendWorldThrows", NoPos, 0)
            /\ UNCHANGED << run, runCount >>
       ELSE /\ lastOp' = Op("sendWorld", NoPos, runCount + 1)
            /\ run' = [IdleRun EXCEPT !.pc = "sleep1"]
            /\ runCount' = runCount + 1
  /\ out' = << >>
  /\ calls' = << >>
  /\ UNCHANGED << sessionVars, now, worldSize, blocks, roster, run2, firstCols, conn >>

\* a sleep of the run ends: it runs on to its next sleep, or returns
SendWorldStep ==
  /\ run.pc \in {"sleep1", "sleep2", "column", "sleep3", "sleep4"}
  /\ lastOp' = Op("sendWorld", NoPos, runCount)
  /\ out' = SendWorldPkts(run)
  /\ run' = SendWorldNext(run)
  /\ firstCols' = IF runCount = 1 /\ run.pc = "sleep4" THEN run.cols ELSE firstCols
  /\ calls' = << >>
  /\ UNCHANGED << sessionVars, now, worldSize, blocks, roster, run2, runCount, conn >>

\* sendWorld(world) is called again while the earlier call of the session is
\* waiting in a sleep: nothing in sendWorld knows of the earlier call
SendWorldCallOverlap ==
  /\ run.pc \in {"sleep1", "sleep2", "column", "sleep3", "sleep4"}
  /\ run2.pc = "idle"
  /\ runCount < MaxRuns
  /\ player # NoPlayer
  /\ lastOp' = Op("sendWorldAgain", NoPos, runCount + 1)
  /\ run2' = [IdleRun EXCEPT !.pc = "sleep1"]
  /\ runCount' = runCount + 1
  /\ out' = << >>
  /\ calls' = << >>
  /\ UNCHANGED << sessionVars, now, worldSize, blocks, roster, run, firstCols, conn >>

\* a sleep of the overlapping call ends
SendWorldStepOverlap ==
  /\ run2.pc \in {"sleep1", "sleep2", "column", "sleep3", "sleep4"}
  /\ lastOp' = Op("sendWorldAgain", NoPos, runCount)
  /\ out' = SendWorldPkts(run2)
  /\ run2' = SendWorldNext(run2)
  /\ calls' = << >>
  /\ UNCHANGED << sessionVars, now, worldSize, blocks, roster, run, runCount, firstCols,
                  conn >>

\* the world tells the session that player p spawned, left or moved
SendSpawnPlayerCall(p) ==
  /\ lastOp' = Op("sendSpawnPlayer", NoPos, numId(p))
  /\ out' = SendSpawnPlayer(p)
  /\ calls' = << >>
  /\ UNCHANGED << sessionVars, now, worldSize, blocks, roster, joinVars, conn >>

SendDespawnPlayerCall(p) ==
  /\ lastOp' = Op("sendDespawnPlayer", NoPos, numId(p))
  /\ out' = SendDespawnPlayer(p)
  /\ calls' = << >>
  /\ UNCHANGED << sessionVars, now, worldSize, blocks, roster, joinVars, conn >>

SendMoveCall(p) ==
  /\ lastOp' = Op("sendMove", NoPos, numId(p))
  /\ out' = SendMove(p)
  /\ calls' = << >>
  /\ UNCHANGED << sessionVars, now, worldSize, blocks, roster, joinVars, conn >>

\* ------------------------------------------------- Server.connectPlayer
\* a listener that runs the handshake for every identification packet (on for once)
IdentificationEveryPacket ==
  /\ lastOp' = Op("identification", NoPos, 0)
  /\ conn' = "authenticating"
  /\ out' = << Pkt("serverInfo", NoPos, 0) >>
  /\ calls' = << >>
  /\ UNCHANGED << sessionVars, now, worldSize, blocks, roster, joinVars >>

\* the identification packet: only the first one runs the handshake (once)
Identification ==
  /\ lastOp' = Op("identification", NoPos, 0)
  /\ IF conn = "connected"
       THEN /\ conn' = "authenticating"
            /\ out' = << Pkt("serverInfo", NoPos, 0) >>
       ELSE /\ UNCHANGED conn
            /\ out' = << >>
  /\ calls' = << >>
  /\ UNCHANGED << sessionVars, now, worldSize, blocks, roster, joinVars >>

\* server.sendChatMessage(join message): every roster player's handler gets it
JoinChat == << Pkt("chatMessage", NoPos, 0) >>

\* authenticatePlayer resolved with allow: the player is created and attached,
\* entered in the roster and sent its world
AuthAllowed ==
  /\ conn = "authenticating"
  /\ conn' = "identified"
  /\ lastOp' = Op("authAllowed", NoPos, 0)
  /\ player' = Self
  /\ isConnected' = TRUE
  /\ roster' = roster \cup {Self}
  /\ run' = [IdleRun EXCEPT !.pc = "sleep1"]
  /\ runCount' = runCount + 1
  /\ out' = SetPlayerOut \o JoinChat
  /\ calls' = << >>
  /\ UNCHANGED << minePos, mineTime, inventory, inventorySlot, closed, now, worldSize,
                  blocks, run2, firstCols >>

\* a handshake that creates and enrols the player before it looks at allow
AuthDeniedAfterEnrol ==
  /\ conn = "authenticating"
  /\ conn' = "denied"
  /\ lastOp' = Op("authDenied", NoPos, 0)
  /\ player' = Self
  /\ roster' = roster \cup {Self}
  /\ out' = DisconnectOut
  /\ closed' = TRUE
  /\ calls' = << >>
  /\ UNCHANGED << isConnected, minePos, mineTime, inventory, inventorySlot, now, worldSize,
                  blocks, joinVars >>

\* authenticatePlayer resolved with deny: conn.disconnect('You need to log in!')
AuthDenied ==
  /\ conn = "authenticating"
  /\ conn' = "denied"
  /\ lastOp' = Op("authDenied", NoPos, 0)
  /\ IF player # NoPlayer /\ isConnected
       THEN /\ isConnected' = FALSE
            /\ roster' = roster \ {player}
       ELSE UNCHANGED << isConnected, roster >>
  /\ out' = DisconnectOut
  /\ closed' = TRUE
  /\ calls' = << >>
  /\ UNCHANGED << player, minePos, mineTime, inventory, inventorySlot, now, worldSize,
                  blocks, joinVars >>

\* authenticatePlayer rejects: the async listener's promise rejects after the
\* server-info reply; the try/catch of connectPlayer returned long before, so
\* nothing logs the failure or disconnects the connection
AuthFails ==
  /\ conn = "authenticating"
  /\ conn' = "failed"
  /\ lastOp' = Op("authFails", NoPos, 0)
  /\ out' = << >>
  /\ calls' = << >>
  /\ UNCHANGED << sessionVars, now, worldSize, blocks, roster, joinVars >>

\* player.changeWorld throws after new Player(...) attached the player and
\* this.players[player.uuid] = player entered it in the roster: the listener's
\* promise rejects, unhandled
JoinFails ==
  /\ conn = "authenticating"
  /\ conn' = "failed"
  /\ lastOp' = Op("joinFails", NoPos, 0)
  /\ player' = Self
  /\ isConnected' = TRUE
  /\ roster' = roster \cup {Self}
  /\ out' = SetPlayerOut
  /\ calls' = << >>
  /\ UNCHANGED << minePos, mineTime, inventory, inventorySlot, closed, now, worldSize,
                  blocks, joinVars >>

\* another connection's player joins or leaves the roster
OtherJoins ==
  /\ Other \notin roster
  /\ roster' = roster \cup {Other}
  /\ lastOp' = Op("otherJoins", NoPos, 0)
  /\ out' = IF player # NoPlayer /\ isConnected THEN JoinChat ELSE << >>
  /\ calls' = << >>
  /\ UNCHANGED << sessionVars, now, worldSize, blocks, joinVars, conn >>

OtherLeaves ==
  /\ Other \in roster
  /\ roster' = roster \ {Other}
  /\ lastOp' = Op("otherLeaves", NoPos, 0)
  /\ out' = IF player # NoPlayer /\ isConnected THEN JoinChat ELSE << >>
  /\ calls' = << >>
  /\ UNCHANGED << sessionVars, now, worldSize, blocks, joinVars, conn >>

\* ------------------------------------------------------------------- Init
SlotRange == 0 .. (InventorySize - 1)

InitSession ==
  /\ player = NoPlayer
  /\ isConnected = FALSE
  /\ minePos = NoPos
  /\ mineTime = NullTime
  /\ inventory = [s \in SlotRange |-> 0]
  /\ inventorySlot = 0
  /\ closed = FALSE
  /\ lastOp = Op("init", NoPos, 0)
  /\ out = << >>
  /\ calls = << >>
  /\ roster = {}
  /\ run = IdleRun
  /\ run2 = IdleRun
  /\ runCount = 0
  /\ firstCols = << >>
  /\ conn = "connected"

\* the tracked cells hold stone, or (2,2,2) and (2,3,2) hold block 2, which the
\* translation table does not list
InitBlocks ==
  { [c \in Cells |-> 1],
    [c \in Cells |-> IF c \in { <<2, 2, 2>>, <<2, 3, 2>> } THEN 2 ELSE 1] }

Init ==
  /\ InitSession
  /\ now \in {1, 2}
  /\ worldSize = DefaultSize
  /\ blocks \in InitBlocks

\* digging: player-action packets, the tick, the clock, attach and disconnect
Next ==
  \/ \E s \in Statuses, p \in PosInputs, ok \in BOOLEAN : PlayerAction(s, p, ok)
  \/ \E ok \in BOOLEAN : Tick(ok)
  \/ \E d \in ClockSteps : AdvanceClock(d)
  \/ SetPlayer
  \/ Disconnect

Spec == Init /\ [][Next]_vars

\* the server's tick loop keeps calling tick(), and Date.now() keeps moving on (in
\* the model: up to MaxNow)
Fairness ==
  /\ WF_vars(\E ok \in BOOLEAN : Tick(ok))
  /\ WF_vars(\E d \in ClockSteps : AdvanceClock(d))

SpecLive == Init /\ [][Next]_vars /\ Fairness

\* --------------------------------------------------- inventory and placing
\* a short: two hotbar slots and one index past the hotbar
HeldSlots == {0, 1, 20}
CreativeSlots == {-1, 36, 37, 50}
\* item 1 maps to a block, item 700 does not
ItemIds == {1, 700}
Faces == 0 .. 5
Sequences == 1 .. MaxSeq

\* playPackets[0x27]: Set Held Item
SetHeldItem(slot) ==
  /\ inventorySlot' = slot
  /\ lastOp' = Op("setHeldItem", NoPos, slot)
  /\ out' = << >>
  /\ calls' = << >>
  /\ UNCHANGED << player, isConnected, minePos, mineTime, inventory, closed, now,
                  worldSize, blocks, roster, joinVars, conn >>

\* playPackets[0x2a]: Set Creative Mode Slot
SetCreativeSlot(slot, present, id) ==
  /\ IF slot < InventorySize /\ slot >= 0
       THEN inventory' = [inventory EXCEPT ![slot] = IF present THEN id ELSE 0]
       ELSE UNCHANGED inventory
  /\ lastOp' = Op("setCreativeSlot", NoPos, slot)
  /\ out' = << >>
  /\ calls' = << >>
  /\ UNCHANGED << player, isConnected, minePos, mineTime, inventorySlot, closed, now,
                  worldSize, blocks, roster, joinVars, conn >>

\* handler.inventory[handler.inventorySlot + 36]
HeldItem ==
  IF inventorySlot + HotbarOffset \in DOMAIN inventory
    THEN inventory[inventorySlot + HotbarOffset]
    ELSE UndefinedItem

\* the face table read with the x and z entries exchanged
FaceCellSwapped(pos, faceId) ==
  << pos[1] + directions[faceId + 1][3],
     pos[2] + directions[faceId + 1][2],
     pos[3] + directions[faceId + 1][1] >>

\* pos + directions[faceId]
FaceCell(pos, faceId) ==
  << pos[1] + directions[faceId + 1][1],
     pos[2] + directions[faceId + 1][2],
     pos[3] + directions[faceId + 1][3] >>

\* ModernConnectionHandler.setBlock(x, y, z, block)
SetBlockPkt(cell, block) == Pkt("setBlock", cell, TranslateOrZero(block))

\* the packets a use-item-on sends
\* a use-item-on that re-sends the clicked cell instead of the face-adjacent one
UseItemOnOutAtClicked(pos, faceId, sequence) ==
  IF HeldItem # 0
    THEN (IF HeldItem \notin DOMAIN itemToCBlock /\ player # NoPlayer
            THEN << SetBlockPkt(pos, getBlockId(pos[1], pos[2], pos[3])) >>
            ELSE << >>)
         \o << Pkt("acknowledgeBlockChange", NoPos, sequence) >>
    ELSE << >>

UseItemOnOut(pos, faceId, sequence) ==
  IF HeldItem # 0
    THEN (IF HeldItem \notin DOMAIN itemToCBlock /\ player # NoPlayer
            THEN << SetBlockPkt(FaceCell(pos, faceId),
                                getBlockId(FaceCell(pos, faceId)[1], FaceCell(pos, faceId)[2],
                                           FaceCell(pos, faceId)[3])) >>
            ELSE << >>)
         \o << Pkt("acknowledgeBlockChange", NoPos, sequence) >>
    ELSE << >>

\* the collaborator calls a use-item-on makes
UseItemOnCalls(pos, faceId) ==
  IF HeldItem # 0 /\ HeldItem \in DOMAIN itemToCBlock /\ player # NoPlayer
    THEN << Call("place", FaceCell(pos, faceId), itemToCBlock[HeldItem].numId) >>
    ELSE << >>

\* playPackets[0x30]: Use Item On
UseItemOn(pos, faceId, sequence, ok) ==
  /\ lastOp' = OpSeq("useItemOn", pos, faceId, sequence)
  /\ out' = UseItemOnOut(pos, faceId, sequence)
  /\ calls' = UseItemOnCalls(pos, faceId)
  /\ blocks' = IF UseItemOnCalls(pos, faceId) # << >>
                 THEN BlockPlace(FaceCell(pos, faceId), itemToCBlock[HeldItem].numId, ok)
                 ELSE blocks
  /\ UNCHANGED << sessionVars, now, worldSize, roster, joinVars, conn >>

\* placing: held-item and creative-slot packets, use-item-on, attach
NextUse ==
  \/ \E s \in HeldSlots : SetHeldItem(s)
  \/ \E s \in CreativeSlots, present \in BOOLEAN, id \in ItemIds : SetCreativeSlot(s, present, id)
  \/ \E p \in PosInputs, f \in Faces, q \in Sequences, ok \in BOOLEAN : UseItemOn(p, f, q, ok)
  \/ SetPlayer

SpecUse == Init /\ [][NextUse]_vars

\* joining: worlds of several sizes, the handshake, the join sequence, a pending
\* dig, disconnect
Dims == { 8 * k : k \in 1 .. MaxDimSteps }

InitJoin ==
  /\ InitSession
  /\ now = 1
  /\ worldSize \in Dims \X Dims \X Dims
  /\ blocks = [c \in {} |-> 0]

NextJoin ==
  \/ Identification
  \/ AuthAllowed
  \/ AuthDenied
  \/ SendWorldCall
  \/ SendWorldStep
  \/ OtherJoins
  \/ OtherLeaves
  \/ Disconnect
  \/ \E s \in {0, 1} : PlayerAction(s, <<5, 10, 5>>, FALSE)

SpecJoin == InitJoin /\ [][NextJoin]_vars

\* the handshake with its failures: the authentication collaborator rejecting,
\* the world change throwing
InitFail ==
  /\ InitSession
  /\ now = 1
  /\ worldSize \in { <<8, 8, 8>>, <<16, 8, 24>> }
  /\ blocks = [c \in {} |-> 0]

NextFail ==
  \/ Identification
  \/ AuthAllowed
  \/ AuthDenied
  \/ AuthFails
  \/ JoinFails
  \/ SendWorldStep
  \/ OtherJoins
  \/ OtherLeaves
  \/ Disconnect

SpecFail == InitFail /\ [][NextFail]_vars

\* two sendWorld calls of one session: the second may be made while the first is
\* suspended
InitOverlap ==
  /\ InitSession
  /\ now = 1
  /\ worldSize \in { <<8, 8, 8>>, <<16, 8, 8>> }
  /\ blocks = [c \in {} |-> 0]

NextOverlap ==
  \/ SetPlayer
  \/ SendWorldCall
  \/ SendWorldStep
  \/ SendWorldCallOverlap
  \/ SendWorldStepOverlap

SpecOverlap == InitOverlap /\ [][NextOverlap]_vars

\* entity packets: a connection that identifies and joins a world other players
\* enter and leave, and the world's spawn, despawn and move notifications about
\* either player
InitEntity ==
  /\ InitSession
  /\ now = 1
  /\ worldSize \in { <<8, 8, 8>>, <<16, 8, 8>> }
  /\ blocks = [c \in {} |-> 0]

NextEntity ==
  \/ Identification
  \/ AuthAllowed
  \/ SendWorldStep
  \/ OtherJoins
  \/ OtherLeaves
  \/ \E p \in {Self, Other} : SendSpawnPlayerCall(p)
  \/ \E p \in {Self, Other} : SendDespawnPlayerCall(p)
  \/ \E p \in {Self, Other} : SendMoveCall(p)

SpecEntity == InitEntity /\ [][NextEntity]_vars

\* the join sequence alone: worlds of several sizes, a player attached by setPlayer,
\* sendWorld, a finish-dig at (2,2,2) that may change the world between two columns,
\* and another connection's player joining and leaving
ChunkSizes ==
  { <<8, 8, 8>>, <<16, 16, 16>>, <<24, 8, 16>>, <<8, 24, 8>>, <<16, 8, 24>> }

InitChunk ==
  /\ InitSession
  /\ now = 1
  /\ worldSize \in ChunkSizes
  /\ blocks \in InitBlocks

NextChunk ==
  \/ SetPlayer
  \/ SendWorldCall
  \/ SendWorldStep
  \/ \E ok \in BOOLEAN : PlayerAction(2, <<2, 2, 2>>, ok)
  \/ OtherJoins
  \/ OtherLeaves

SpecChunk == InitChunk /\ [][NextChunk]_vars

\* ================================================================== claims
Breaks(cs) == { i \in 1 .. Len(cs) : cs[i].fn = "break" }
Sent(ps, name) == { i \in 1 .. Len(ps) : ps[i].id = name }
Add3(p, d) == << p[1] + d[1], p[2] + d[2], p[3] + d[3] >>

\* C1: a start-dig records its position and receive time; while no player-action
\* packet arrives the pending dig stays as recorded through every tick that runs
\* 200 ms or less after the start; the first tick that runs more than 200 ms after
\* the start of a dig at a position inside the player's world calls block-break
\* exactly once, at that position, and empties the pending dig; a tick with no
\* pending dig calls no block-break.
C1_TimeoutBreaksOnce ==
  [][ /\ (lastOp'.op = "playerAction" /\ lastOp'.arg = 0)
          => (minePos' = lastOp'.pos /\ mineTime' = now)
      /\ (lastOp'.op # "playerAction" /\ ~(lastOp'.op = "tick" /\ now - mineTime > MineDelay))
          => UNCHANGED << minePos, mineTime >>
      /\ (lastOp'.op = "tick" /\ minePos # NoPos /\ PlayerInBounds(minePos)
            /\ now - mineTime > MineDelay)
          => /\ Cardinality(Breaks(calls')) = 1
             /\ \A i \in Breaks(calls') : calls'[i].pos = minePos
             /\ minePos' = NoPos
             /\ mineTime' = NullTime
      /\ (lastOp'.op = "tick" /\ minePos = NoPos) => Breaks(calls') = {}
    ]_vars

\* C1 witness: a tick resolved the dig at (5,10,5) by one block-break
C1_Witness ==
  /\ lastOp.op = "tick"
  /\ Len(calls) = 1 /\ calls[1].fn = "break" /\ calls[1].pos = <<5, 10, 5>>
  /\ minePos = NoPos

\* C2: a finish-dig whose position is outside the world bounds sends exactly one
\* set-block packet, carrying the barrier state at that position, and calls no
\* block-break.
C2_FinishOutOfBounds ==
  (lastOp.op = "playerAction" /\ lastOp.arg = 2
     /\ ~isInBounds(lastOp.pos[1], lastOp.pos[2], lastOp.pos[3]))
    => /\ out = << Pkt("setBlock", lastOp.pos, barrierId) >>
       /\ Breaks(calls) = {}

\* C2 witness: a finish-dig below x = 0 of a session with a player, answered by the barrier
C2_Witness ==
  /\ lastOp = Op("playerAction", <<-1, 10, 5>>, 2)
  /\ player # NoPlayer
  /\ out = << Pkt("setBlock", <<-1, 10, 5>>, barrierId) >>

\* C3: every use-item-on sends one acknowledge-block-change packet carrying the
\* request's sequence number: with a placeable item, a non-placeable item, an empty
\* held slot, or no player attached.
C3_AlwaysAcknowledged ==
  lastOp.op = "useItemOn"
    => /\ Cardinality(Sent(out, "acknowledgeBlockChange")) = 1
       /\ \A i \in Sent(out, "acknowledgeBlockChange") : out[i].b = lastOp.seq

\* the spec's face table: 0:-Y 1:+Y 2:-Z 3:+Z 4:-X 5:+X
FaceOffset(f) ==
  CASE f = 0 -> <<0, -1, 0>>
    [] f = 1 -> <<0, 1, 0>>
    [] f = 2 -> <<0, 0, -1>>
    [] f = 3 -> <<0, 0, 1>>
    [] f = 4 -> <<-1, 0, 0>>
    [] f = 5 -> <<1, 0, 0>>

\* C4: with a player attached, a use-item-on with a held item that maps to a
\* placeable block calls block-place exactly once, at the clicked position plus the
\* face's direction (0:-Y 1:+Y 2:-Z 3:+Z 4:-X 5:+X), with that block's id.
C4_PlaceAtFace ==
  (lastOp.op = "useItemOn" /\ player # NoPlayer /\ HeldItem \in DOMAIN itemToCBlock)
    => calls = << Call("place", Add3(lastOp.pos, FaceOffset(lastOp.arg)),
                       itemToCBlock[HeldItem].numId) >>

\* C4 witness: face 1 at (2,2,2) placed at (2,3,2)
C4_Witness ==
  /\ lastOp.op = "useItemOn" /\ lastOp.pos = <<2, 2, 2>> /\ lastOp.arg = 1
  /\ calls = << Call("place", <<2, 3, 2>>, 1) >>

\* C5: a denied authentication sends the connection one disconnect packet and closes
\* it, creates no player, and leaves the roster as it was: neither the identification
\* packet nor the denial changes the roster, and a denied connection has no player
\* in it.
C5_DeniedAddsNoPlayer ==
  [][ /\ lastOp'.op = "authDenied"
          => /\ out' = << Pkt("disconnect", NoPos, 0) >>
             /\ closed'
             /\ player' = NoPlayer
             /\ roster' = roster
      /\ lastOp'.op = "identification" => roster' = roster
      /\ conn' = "denied" => (player' = NoPlayer /\ Self \notin roster')
    ]_vars

\* C5 witness: the denial of a connection while another player is on the roster
C5_Witness ==
  /\ lastOp.op = "authDenied" /\ conn = "denied" /\ closed
  /\ roster = {Other}
  /\ out = << Pkt("disconnect", NoPos, 0) >>

\* the columns of the border-extended world: [-1, ceil(w/16)] x [-1, ceil(d/16)]
ColumnRange ==
  (-1 .. CeilDiv(worldSize[1], 16)) \X (-1 .. CeilDiv(worldSize[3], 16))

ColumnsOf(cols) == { cols[i].a : i \in 1 .. Len(cols) }
SelfAdds(ps) == { i \in 1 .. Len(ps) : ps[i].id = "playerListAdd" /\ ps[i].a = Self }
ListAdds(ps) == { i \in 1 .. Len(ps) : ps[i].id = "playerListAdd" }

\* C6: a second sendWorld of the session, once it returns, has sent the complete
\* chunk stream again, column for column what the first call sent; no step of
\* sendWorld touches the pending dig; and the player-list adds of the call list every
\* identity under one uuid, the session's own identity once.
C6_SecondJoinRerunsAll ==
  [][ /\ lastOp'.op = "sendWorld" => UNCHANGED << minePos, mineTime >>
      /\ (run'.pc = "done" /\ runCount' >= 2)
          => /\ run'.cols = firstCols'
             /\ ColumnsOf(run'.cols) = ColumnRange
             /\ Cardinality(SelfAdds(run'.sent)) = 1
             /\ \A i, j \in ListAdds(run'.sent) :
                  run'.sent[i].a = run'.sent[j].a => run'.sent[i].b = run'.sent[j].b
    ]_vars

\* C6 witness: the second call returned, with a dig pending since before it
C6_Witness ==
  /\ run.pc = "done" /\ runCount = 2
  /\ lastOp.op = "sendWorld"
  /\ minePos = <<5, 10, 5>>
  /\ Other \in roster

\* C7: once the transport is closed, a sendWorld run that wakes from a pacing delay
\* sends nothing more.
C7_ClosedAbortsJoin ==
  [][ (closed /\ lastOp'.op = "sendWorld") => out' = << >> ]_vars

\* C8: once disconnect() has closed the transport, no operation of the session hands
\* a packet to send: no keep-alive or dig packet from tick(), no second disconnect
\* packet.
C8_ClosedIsTerminal ==
  [][ closed => out' = << >> ]_vars

\* C9: the chunk-column packets of a sendWorld run are pairwise distinct columns of
\* [-1, ceil(width/16)] x [-1, ceil(depth/16)], and once the run is past its column
\* loop they are all of them.
C9_OneColumnEach ==
  /\ \A i \in 1 .. Len(run.cols) : run.cols[i].a \in ColumnRange
  /\ \A i, j \in 1 .. Len(run.cols) : run.cols[i].a = run.cols[j].a => i = j
  /\ run.pc \in {"sleep3", "sleep4", "done"} => ColumnsOf(run.cols) = ColumnRange

\* C9 witness: a run past its columns in a world 24 wide and 8 deep: 4 x 3 columns
C9_Witness ==
  /\ run.pc = "done"
  /\ worldSize[1] = 24 /\ worldSize[3] = 8
  /\ Len(run.cols) = 12

CellRange == 0 .. (SectionEdge - 1)

\* section cy of column (cx, cz) holds nothing but the barrier
AllBarrier(cx, cy, cz) ==
  \A x \in CellRange, y \in CellRange, z \in CellRange :
    SectionCell(cx, cy, cz, x, y, z) = barrierId

ChunksOf(ps) == { i \in 1 .. Len(ps) : ps[i].id = "chunk" }

\* the section indices from lo up to hi
RECURSIVE Upto(_, _)
Upto(lo, hi) == IF lo > hi THEN << >> ELSE << lo >> \o Upto(lo + 1, hi)

\* C10 as stated: every chunk-column packet carries, bottom-up, one section below the
\* world's vertical extent, the sections covering it, and one section above it, and
\* both extra sections hold nothing but the barrier.
C10_ExtraSectionBelowAndAbove ==
  \A i \in ChunksOf(out) :
    /\ out[i].b = Upto(-1, CeilDiv(worldSize[2], 16))
    /\ AllBarrier(out[i].a[1], -1, out[i].a[2])
    /\ AllBarrier(out[i].a[1], CeilDiv(worldSize[2], 16), out[i].a[2])

\* C10 amended: every chunk-column packet carries, bottom-up, one section below the
\* world's vertical extent, which holds nothing but the barrier, and then the
\* ceil(height/16) sections covering the extent; it carries no section above it.
C10_ExtraSectionBelowOnly ==
  \A i \in ChunksOf(out) :
    /\ out[i].b = Upto(-1, CeilDiv(worldSize[2], 16) - 1)
    /\ AllBarrier(out[i].a[1], -1, out[i].a[2])
    /\ \A k \in 2 .. Len(out[i].b) : out[i].b[k] * 16 < worldSize[2]

\* C10 witness: a column inside a world 24 high was sent with sections -1, 0, 1
C10_Witness ==
  /\ worldSize[2] = 24
  /\ \E i \in ChunksOf(out) : out[i].a = <<0, 0>> /\ out[i].b = << -1, 0, 1 >>

\* the packets of ps that carry the state of the world's block at their position
BlockStatePkts(ps) == { i \in 1 .. Len(ps) : ps[i].id \in {"setBlock", "worldEvent"} }

\* C11: a packet that carries the state of a world block whose id the translation
\* table does not list (a set-block of the authoritative block, the world event of a
\* break) carries the barrier state.
C11_UnmappedIsBarrier ==
  [][ \A i \in BlockStatePkts(out') :
        ( /\ isInBounds(out'[i].a[1], out'[i].a[2], out'[i].a[3])
          /\ getBlockId(out'[i].a[1], out'[i].a[2], out'[i].a[3])
               \notin DOMAIN cBlockToBlockState )
          => out'[i].b = barrierId
    ]_vars

\* C12: in every section of every chunk-column packet, a cell whose world coordinate
\* lies outside the world holds the barrier state, and a cell inside it holds the
\* table's state for the block id the world reports there (for an id the table does
\* not list, see C11); every one of the 16 x 16 x 16 cells of the section is set.
C12_CellsFollowBounds ==
  \A i \in ChunksOf(out) :
    \A k \in 1 .. Len(out[i].b) :
      \A x \in CellRange, y \in CellRange, z \in CellRange :
        LET wx == out[i].a[1] * 16 + x
            wy == out[i].b[k] * 16 + y
            wz == out[i].a[2] * 16 + z
            cell == SectionCell(out[i].a[1], out[i].b[k], out[i].a[2], x, y, z)
        IN  IF \/ wx < 0 \/ wx >= worldSize[1]
               \/ wy < 0 \/ wy >= worldSize[2]
               \/ wz < 0 \/ wz >= worldSize[3]
              THEN cell = barrierId
              ELSE getBlockId(wx, wy, wz) \in DOMAIN cBlockToBlockState
                     => cell = cBlockToBlockState[getBlockId(wx, wy, wz)]

\* C12 witness: column (0, 0) of a world 8 x 8 x 8 is sent after the block at
\* (2,2,2) was broken: its section 0 has air there, stone beside it, barrier beyond
C12_Witness ==
  /\ worldSize = <<8, 8, 8>>
  /\ blocks[<<2, 2, 2>>] = 0
  /\ \E i \in ChunksOf(out) : out[i].a = <<0, 0>> /\ out[i].b = << -1, 0 >>
  /\ SectionCell(0, 0, 0, 2, 2, 2) = 0
  /\ SectionCell(0, 0, 0, 2, 1, 2) = 1
  /\ SectionCell(0, 0, 0, 8, 2, 2) = barrierId

\* C13: a tick that resolves the pending dig at p by timeout does what a finish-dig
\* packet for p does from the same state, for the same answer of the block-break
\* collaborator: the same collaborator calls, the same dig packets in the same order
\* (after the keep-alive the tick may send), the same world and an empty pending dig.
C13_TimeoutAsFinish ==
  [][ (lastOp'.op = "tick" /\ DigTimedOut)
        => \E ok \in BOOLEAN :
             /\ out' = KeepAlive \o FinishDigOut(minePos, ok)
             /\ calls' = FinishDigCalls(minePos, ok)
             /\ blocks' = FinishDigBlocks(minePos, ok)
             /\ minePos' = NoPos
             /\ mineTime' = NullTime
    ]_vars

\* C13 witness: a tick at an even time resolved a dig outside the world: keep-alive,
\* then the barrier at the dig's position, no call
C13_Witness ==
  /\ lastOp.op = "tick"
  /\ Len(out) = 2 /\ out[1].id = "keepAlive"
  /\ out[2] = Pkt("setBlock", <<5, 128, 5>>, barrierId)
  /\ calls = << >>
  /\ minePos = NoPos

\* the modelled clock can run past the timeout of a dig started at time t
ClockOutlasts(t) ==
  \A n \in t .. MaxNow : n <= t + MineDelay => \E d \in ClockSteps : n + d <= MaxNow

\* the last step was a tick that resolved a dig: it attempted the break or sent the
\* barrier, and left no dig pending
TickResolved ==
  /\ lastOp.op = "tick"
  /\ minePos = NoPos /\ mineTime = NullTime
  /\ \/ Breaks(calls) # {}
     \/ \E i \in Sent(out, "setBlock") : out[i].b = barrierId

\* C14: while ticks keep running and time advances, a pending dig is eventually
\* resolved by a tick (break attempted or barrier sent, pending dig empty) unless a
\* player-action packet arrives first; and a tick that runs 200 ms or less after the
\* start of the dig leaves it pending and calls nothing.
C14_PendingDigResolves ==
  /\ (minePos # NoPos /\ ClockOutlasts(mineTime) /\ lastOp.op # "playerAction")
       ~> (TickResolved \/ lastOp.op = "playerAction")
  /\ [][ (lastOp'.op = "tick" /\ minePos # NoPos /\ now - mineTime <= MineDelay)
           => (UNCHANGED << minePos, mineTime, blocks >> /\ calls' = << >>)
       ]_vars

\* C14 witness: a session without a player had its dig resolved by a tick more than
\* 200 ms after the start, with no finish packet
C14_Witness ==
  /\ TickResolved
  /\ player = NoPlayer
  /\ now > MineDelay

\* C15: a finish-dig at a position inside the player's world calls block-break once,
\* at the packet's position, and nothing else; it sends a world-event packet exactly
\* when the break succeeded, and nothing else; the world event carries the packet's
\* position and the table's state for the block id the cell held before the break
\* (for an id the table does not list, see C11).
C15_FinishBreaksOnce ==
  [][ (lastOp'.op = "playerAction" /\ lastOp'.arg = 2 /\ PlayerInBounds(lastOp'.pos))
        => /\ Len(calls') = 1
           /\ calls'[1].fn = "break" /\ calls'[1].pos = lastOp'.pos
           /\ Len(out') = calls'[1].arg
           /\ \A i \in 1 .. Len(out') :
                /\ out'[i].id = "worldEvent"
                /\ out'[i].a = lastOp'.pos
                /\ getBlockId(lastOp'.pos[1], lastOp'.pos[2], lastOp'.pos[3])
                       \in DOMAIN cBlockToBlockState
                     => out'[i].b = cBlockToBlockState[
                          getBlockId(lastOp'.pos[1], lastOp'.pos[2], lastOp'.pos[3])]
    ]_vars

\* C15 witness: the finish-dig at (5,10,5) broke the stone there: the world event
\* names stone, the cell now holds air
C15_Witness ==
  /\ lastOp = Op("playerAction", <<5, 10, 5>>, 2)
  /\ calls = << Call("break", <<5, 10, 5>>, 1) >>
  /\ out = << Pkt("worldEvent", <<5, 10, 5>>, 1) >>
  /\ blocks[<<5, 10, 5>>] = 0

\* C16: a use-item-on whose held item is not empty and maps to no placeable block
\* calls no block-place and leaves the world as it was; with a player attached it
\* sends one set-block packet, for the cell next to the clicked face, carrying the
\* table's state for the block the world holds there (for an id the table does not
\* list, see C11).
C16_RejectedPlaceResendsBlock ==
  [][ (lastOp'.op = "useItemOn" /\ HeldItem # 0 /\ HeldItem \notin DOMAIN itemToCBlock)
        => /\ calls' = << >>
           /\ blocks' = blocks
           /\ player # NoPlayer
                => LET cell == Add3(lastOp'.pos, FaceOffset(lastOp'.arg))
                   IN  /\ Cardinality(Sent(out', "setBlock")) = 1
                       /\ \A i \in Sent(out', "setBlock") :
                            /\ out'[i].a = cell
                            /\ getBlockId(cell[1], cell[2], cell[3])
                                   \in DOMAIN cBlockToBlockState
                                 => out'[i].b =
                                      cBlockToBlockState[getBlockId(cell[1], cell[2], cell[3])]
    ]_vars

\* C16 witness: item 700 used on the top face of (2,2,2): the stone at (2,3,2) is
\* sent again, nothing is placed
C16_Witness ==
  /\ lastOp.op = "useItemOn" /\ lastOp.pos = <<2, 2, 2>> /\ lastOp.arg = 1
  /\ HeldItem = 700
  /\ blocks[<<2, 3, 2>>] = 1
  /\ calls = << >>
  /\ out = << Pkt("setBlock", <<2, 3, 2>>, 1), Pkt("acknowledgeBlockChange", NoPos, lastOp.seq) >>

\* C17: right after a player-action packet the pending dig is what that packet made
\* it, whatever was pending before: after a start-dig it is the packet's position
\* with the time of receipt; after a cancel-dig it is empty, and the cancel called no
\* collaborator and sent no packet; after a finish-dig it is empty, whether the break
\* succeeded, was rejected, or the position was out of bounds.
C17_LastActionDecides ==
  lastOp.op = "playerAction"
    => /\ lastOp.arg = 0 => (minePos = lastOp.pos /\ mineTime = now)
       /\ lastOp.arg = 1
            => (minePos = NoPos /\ mineTime = NullTime /\ calls = << >> /\ out = << >>)
       /\ lastOp.arg = 2 => (minePos = NoPos /\ mineTime = NullTime)

\* C17 witness: a finish-dig whose break the player rejected, at a time when an
\* earlier start-dig would still be pending: nothing is pending after it
C17_Witness ==
  /\ lastOp = Op("playerAction", <<2, 2, 2>>, 2)
  /\ calls = << Call("break", <<2, 2, 2>>, 0) >>
  /\ out = << >>
  /\ minePos = NoPos
  /\ now > MineDelay

\* the place of a packet in the join sequence
JoinPhase(p) ==
  CASE p.id = "joinGame" -> 1
    [] p.id = "respawn" -> 2
    [] p.id = "updateViewDistance" -> 3
    [] p.id = "updateTickDistance" -> 4
    [] p.id = "updateViewPos" -> 5
    [] p.id = "chunk" -> 6
    [] p.id = "spawnPlayer" -> 7
    [] p.id = "playerListAdd" -> IF p.a = Self THEN 8 ELSE 7
    [] p.id \in {"teleport", "rotateHead"} -> 9
    [] p.id = "abilities" -> 10
    [] OTHER -> 0

JoinPhases(ps) == { JoinPhase(ps[i]) : i \in 1 .. Len(ps) }

\* C18: the packets one sendWorld run has sent so far are in the order join-game,
\* respawn, view distance, tick distance, view position, chunk columns, spawn
\* packets of the players present, player-list add of the arriving player, teleport,
\* abilities: no packet is followed by one of an earlier kind, so no chunk column
\* follows a spawn or player-list packet; and a run that returned has sent every
\* kind but, with nobody else present, the spawn packets.
C18_JoinOrder ==
  /\ \A i \in 1 .. Len(run.sent) - 1 :
       /\ JoinPhase(run.sent[i]) >= 1
       /\ JoinPhase(run.sent[i]) <= JoinPhase(run.sent[i + 1])
  /\ run.pc = "done" => {1, 2, 3, 4, 5, 6, 8, 9, 10} \subseteq JoinPhases(run.sent)
  /\ \A i \in 1 .. Len(run.sent) :
       run.sent[i].id = "spawnPlayer" => run.sent[i].a # Self

\* C18 witness: a run returned that spawned the other player after its columns
C18_Witness ==
  /\ run.pc = "done"
  /\ JoinPhases(run.sent) = 1 .. 10
  /\ run.sent[Len(run.sent)].id = "abilities"

\* a sendWorld run is waiting in one of its sleeps
Suspended == run.pc \in {"sleep1", "sleep2", "column", "sleep3", "sleep4"}

\* C19: one uninterrupted step of sendWorld sends at most one chunk column and
\* nothing with it, and leaves the run suspended; the metadata step sends no column
\* and suspends; the teleport is not sent in the step of the player-list add; the
\* step that sends abilities suspends before the run returns; and while a run is
\* suspended the packet of another connection (its player joining or leaving) can
\* be handled.
C19_SuspendsBetweenColumns ==
  /\ lastOp.op = "sendWorld"
       => /\ Cardinality(ChunksOf(out)) <= 1
          /\ ChunksOf(out) # {} => (Len(out) = 1 /\ Suspended)
          /\ Sent(out, "joinGame") # {} => (ChunksOf(out) = {} /\ run.pc = "sleep2")
          /\ Sent(out, "playerListAdd") # {} => (Sent(out, "teleport") = {} /\ Suspended)
          /\ Sent(out, "abilities") # {} => run.pc = "sleep4"
  /\ Suspended => ENABLED (OtherJoins \/ OtherLeaves)

\* C19 witness: another connection's player joined between two columns of a run
C19_Witness ==
  /\ lastOp.op = "otherJoins"
  /\ run.pc = "column"
  /\ Len(run.cols) = 2
  /\ NextColumn(run.cx, run.cz) # NoPos

\* C20: the first identification packet of a connection sends the server-info reply
\* and starts the one authentication request, whose outcome is not yet known (no
\* player, roster as before); every later identification packet sends nothing and
\* changes nothing; no authentication is ever started again, each outcome answers the
\* request in flight, and a player is created only by the allowing outcome, on a
\* connection that has none.
C20_IdentifiedOnce ==
  [][ /\ lastOp'.op = "identification"
          => IF conn = "connected"
               THEN /\ conn' = "authenticating"
                    /\ out' = << Pkt("serverInfo", NoPos, 0) >>
                    /\ player' = NoPlayer
                    /\ roster' = roster
               ELSE /\ out' = << >>
                    /\ UNCHANGED << conn, player, roster, run, runCount >>
      /\ conn' = "authenticating" => conn \in {"connected", "authenticating"}
      /\ Sent(out', "serverInfo") # {} => conn = "connected"
      /\ lastOp'.op \in {"authAllowed", "authDenied"}
          => (conn = "authenticating" /\ conn' \in {"identified", "denied"})
      /\ player' # player => (lastOp'.op = "authAllowed" /\ player = NoPlayer)
    ]_vars

\* C20 witness: a second identification packet reached a connection whose player had
\* joined and was receiving its world: nothing was sent, nothing changed
C20_Witness ==
  /\ lastOp.op = "identification"
  /\ conn = "identified"
  /\ player = Self
  /\ out = << >>
  /\ run.pc = "column"
  /\ runCount = 1

\* C21: a failure while a connection's identification is processed (authentication
\* rejecting, the world change throwing) disconnects that connection, with a
\* disconnect packet, and leaves the roster as it was.
C21_FailureIsolated ==
  [][ lastOp'.op \in {"authFails", "joinFails"}
        => /\ closed'
           /\ Sent(out', "disconnect") # {}
           /\ roster' = roster
    ]_vars

\* the break calls of cs that the player rejected
Rejected(cs) == { i \in Breaks(cs) : cs[i].arg = 0 }

\* C22: when the player rejects the block-break of a finish-dig or of the tick
\* timeout, that step does not close the session and sends a set-block packet for
\* the cell, carrying the state of the block the world holds there.
C22_RejectionCorrected ==
  [][ \A i \in Rejected(calls') :
        /\ closed' = closed
        /\ \E j \in Sent(out', "setBlock") :
             /\ out'[j].a = calls'[i].pos
             /\ out'[j].b = TranslateOrZero(getBlockId(calls'[i].pos[1], calls'[i].pos[2],
                                                       calls'[i].pos[3]))
    ]_vars

\* C23: when a tick has just resolved the pending dig by a block-break at p, a
\* finish-dig packet for p that arrives next, with no start-dig in between, calls
\* no block-break: the one start-dig gets one break.
C23_OneBreakPerStart ==
  [][ ( /\ lastOp.op = "tick" /\ Breaks(calls) # {}
        /\ lastOp'.op = "playerAction" /\ lastOp'.arg = 2
        /\ \A i \in Breaks(calls) : calls[i].pos = lastOp'.pos )
        => Breaks(calls') = {}
    ]_vars

\* C24: a dig resolution (finish-dig packet or tick timeout) sends the barrier
\* set-block packet only for a position outside the world bounds, with or without a
\* player attached to the session.
C24_BarrierOnlyOutside ==
  lastOp.op \in {"playerAction", "tick"}
    => \A i \in Sent(out, "setBlock") :
         out[i].b = barrierId => ~isInBounds(out[i].a[1], out[i].a[2], out[i].a[3])

\* C25: once a later sendWorld call of the session has sent its join-game and
\* respawn metadata, no chunk column of the earlier call is sent any more.
C25_OneChunkStream ==
  [][ (Sent(run2.sent, "joinGame") # {} /\ lastOp'.op = "sendWorld")
        => ChunksOf(out') = {}
    ]_vars

\* C26: the selected slot is always in 0..8, so the inventory entry use-item-on
\* consults, selected slot + 36, is one of the entries 0..49; and a
\* creative-set-slot with a slot outside 0..49 leaves the inventory as it was.
C26_SelectedSlotInHotbar ==
  [][ /\ inventorySlot' \in 0 .. 8
      /\ inventorySlot' + HotbarOffset \in SlotRange
      /\ (lastOp'.op = "setCreativeSlot" /\ lastOp'.arg \notin SlotRange)
           => inventory' = inventory
    ]_vars

EntityPkts == {"spawnPlayer", "removeEntity", "playerListRemove"}

\* C27: a session with a player sends no spawn-entity, remove-entities or
\* player-list-remove packet about that player, and sendMove sends no teleport or
\* rotate-head about it: sendSpawnPlayer, sendDespawnPlayer and sendMove called with
\* the session's own player send nothing, and the spawn packets of sendWorld skip it
\* even when it is in the world's player list.
C27_NothingAboutSelf ==
  player # NoPlayer
    => /\ \A i \in 1 .. Len(out) :
            out[i].id \in EntityPkts => (out[i].a # player /\ out[i].b # numId(player))
       /\ lastOp.op = "sendMove" => \A i \in 1 .. Len(out) : out[i].b # numId(player)
       /\ (lastOp.op \in {"sendSpawnPlayer", "sendDespawnPlayer", "sendMove"}
             /\ lastOp.arg = numId(player))
            => out = << >>
       /\ \A i \in 1 .. Len(run.sent) :
            run.sent[i].id \in EntityPkts => run.sent[i].a # player

\* C27 witness: sendMove about the session's own player sent nothing, after a
\* sendWorld that spawned the other player from a world holding both
C27_Witness ==
  /\ lastOp.op = "sendMove" /\ lastOp.arg = numId(Self)
  /\ player = Self
  /\ out = << >>
  /\ run.pc = "done"
  /\ Sent(run.sent, "spawnPlayer") # {}
  /\ roster = {Self, Other}

====
